---- MODULE Spec2Model ----
(***************************************************************************)
(* Model of training/train.py: the epoch loop train_loop (lines 11-58),    *)
(* the branch scheduler main (lines 61-143) and the command-line entry     *)
(* (lines 146-171).                                                        *)
(*                                                                         *)
(* Numbers.  A test accuracy is a level 0..MaxAcc (level 0 is the float    *)
(* 0.0, a higher level a higher accuracy); only the order of accuracies    *)
(* matters to the code (line 42).  A quotient a / b of the code is the     *)
(* normalised fraction <<p, q>>.  The parameters of a model are identified *)
(* by the number of optimizer steps applied to it since construction.      *)
(*                                                                         *)
(* Batches.  A training batch is the sequence of its samples, a sample     *)
(* its loss and whether it is classified correctly; a test batch is named  *)
(* by its place in the test loader.  evaluate, calculate_accuracy and the  *)
(* loaders are defined outside training/train.py and are modelled as the   *)
(* specification describes them.                                           *)
(***************************************************************************)
EXTENDS Integers, Sequences, FiniteSets, TLC

\* ---- bounds ----
MaxEpochs == 3      \* epoch counts given to a direct call of train_loop: 0..MaxEpochs
MaxAcc == 3         \* accuracy levels 0..MaxAcc
\* main's epoch budgets are 400 and 300 in the source (lines 73-74); the model
\* runs main with these scaled budgets.
EPOCHS_g1 == 2
EPOCHS_g2 == 2
MaxSamples == 3     \* samples of a data set cut into batches (SpecMetric)

VARIABLES
    pc,                     \* position of the program
    exc,                    \* the exception that ended the program, or "none"
    branch_selection,       \* args.branch
    train_iter_A,           \* main: << >> (None) or <<loader>> of branch g1
    train_iter_B,           \* main: << >> (None) or <<loader>> of branch g2
    test_iter_A,            \* main: << >> (None) or <<test loader>> of branch g1
    test_iter_B,            \* main: << >> (None) or <<test loader>> of branch g2
    constructed,            \* main: the LRNet models constructed so far
    log_g1,                 \* main: << >> while unbound, <<log>> once bound
    log_g2,
    main_ret,               \* what main returned: kind "pending" until it returns
    unknown_printed,        \* line 123 was printed
    caller,                 \* who called the running train_loop: "g1", "g2" (main) or "direct"
    model,                  \* train_loop: name of the model being trained
    params,                 \* optimizer steps applied to that model
    mode,                   \* that model's mode: "train" or "eval" (module.training)
    train_iter,             \* train_loop: its training loader
    test_iter,              \* train_loop: its test loader
    epochs,                 \* train_loop: parameter epochs
    add_weights_file,       \* train_loop: checkpoint path
    epoch,                  \* train_loop: loop variable of line 19
    consumed,               \* position of the training loader's iterator in use
    ops,                    \* the calls made on model, loss, optimizer and
                            \* checkpoint store since the current epoch began
    loss_sum,
    acc_sum,
    samples_sum,
    test_acc,
    best_test_acc,
    save_hint,              \* TRUE for the non-empty hint of line 43
    log_training_loss,
    log_training_accuracy,
    log_testing_accuracy,
    ret,                    \* value train_loop returned to a direct caller: << >> or <<log>>
    files,                  \* checkpoint store: path -> << >> or <<state_dict>>
    writes,                 \* number of torch.save calls per path
    stdout,                 \* progress lines written by tqdm.write
    hist                    \* this run's checkpoint decisions, one per evaluated epoch

vars == <<pc, exc, branch_selection, train_iter_A, train_iter_B, test_iter_A,
          test_iter_B, constructed,
          log_g1, log_g2, main_ret, unknown_printed, caller, model, params, mode,
          train_iter, test_iter, epochs, add_weights_file, epoch, consumed, ops, loss_sum,
          acc_sum, samples_sum, test_acc, best_test_acc, save_hint,
          log_training_loss, log_training_accuracy, log_testing_accuracy,
          ret, files, writes, stdout, hist>>

mainVars == <<branch_selection, train_iter_A, train_iter_B, test_iter_A,
              test_iter_B, constructed,
              log_g1, log_g2, main_ret, unknown_printed>>

argVars == <<caller, model, train_iter, test_iter, epochs, add_weights_file>>

epochVars == <<epoch, consumed, ops, loss_sum, acc_sum, samples_sum>>

logVars == <<log_training_loss, log_training_accuracy, log_testing_accuracy>>

\* ---- values ----
Paths == {"g1.pth", "g2.pth"}
BranchArgs == {"g1", "g2", "all", "g3"}
AccLevels == 0..MaxAcc

\* A loader is a sequence of batches and a batch (X, y) a non-empty sequence
\* of samples; a sample is given by what the model yields on it: its loss
\* -log(output[y]) in whole units and whether it is classified correctly.
Sample(loss, correct) == [loss |-> loss, correct |-> correct]

\* The training loaders main is run on: an empty loader, a one-batch loader,
\* and a two-batch loader whose last batch is a partial batch.
Loaders == { << >>,
             << <<Sample(1, TRUE), Sample(1, FALSE)>> >>,
             << <<Sample(1, TRUE), Sample(1, TRUE)>>, <<Sample(2, FALSE)>> >> }

\* the per-sample loss values of the data sets of SpecMetric
LossValues == {0, 1}

\* The test loaders: test batches are named by their place in the loader.
TestLoaders == { <<1, 2>> }

RECURSIVE GCD(_, _)
GCD(a, b) == IF b = 0 THEN a ELSE GCD(b, a % b)

\* a / b for b > 0, as a normalised fraction
Div(a, b) == <<a \div GCD(a, b), b \div GCD(a, b)>>

SetMax(S) == CHOOSE x \in S : \A y \in S : y <= x

Range(s) == {s[i] : i \in 1..Len(s)}

RECURSIVE SumLoss(_)
SumLoss(b) == IF b = << >> THEN 0 ELSE b[1].loss + SumLoss(Tail(b))

RECURSIVE CountCorrect(_)
CountCorrect(b) ==
    IF b = << >> THEN 0 ELSE (IF b[1].correct THEN 1 ELSE 0) + CountCorrect(Tail(b))

\* line 25: samples_num = X.shape[0] (samples_num_one: the batch counted as one)
samples_num_one(b) == 1
samples_num(b) == Len(b)

\* lines 30 and 133: nn.NLLLoss() averages the losses of the batch's samples;
\* l.item() is that mean, a fraction
l_item(b) == <<SumLoss(b), Len(b)>>

\* utils.metric.calculate_accuracy(output, y) on batch b: the fraction correct / n
calculate_accuracy(b) == <<CountCorrect(b), Len(b)>>

\* fraction f times the integer k (whole when k is the fraction's denominator)
Times(f, k) == (f[1] * k) \div f[2]

\* ---- train_loop, lines 11-58 ----

\* line 15 (InitBestLeaky: a best score kept from the previous run, as a
\* module-level variable would be)
InitBestLeaky == best_test_acc
InitBest == 0

\* line 19: trange(1, epochs + 1) yields another epoch after `done` epochs
\* (HasNextEpochShort: range(1, epochs); HasNextEpochLong: one epoch too many)
HasNextEpochShort(done, e) == done + 1 < e
HasNextEpochLong(done, e) == done <= e
HasNextEpoch(done, e) == done < e

\* line 42 (ShouldSaveStrict: > in place of >=)
ShouldSaveStrict(acc, best) == acc > best
ShouldSave(acc, best) == acc >= best

\* lines 42-47: the best score after the decision (NewBestAlways: line 45
\* outside the if; NewBestNever: line 45 missing)
NewBestAlways(acc, best) == acc
NewBestNever(acc, best) == best
NewBest(acc, best) == IF ShouldSave(acc, best) THEN acc ELSE best

\* the loader's __iter__ (utils.dataset): a loader is a restartable iterable,
\* every iter() of it is a new iterator placed before its first batch
LoaderIter(it) == 0

\* line 21: `for X, y in train_iter` calls iter(train_iter) when the statement
\* is reached, once in every epoch; pos is the place of the iterator the
\* previous epoch used up (ForTrainIterOnce: one iterator made before the
\* epoch loop and used by every epoch)
ForTrainIterOnce(pos, it) == pos
ForTrainIter(pos, it) == LoaderIter(it)

\* a call made on the model, the loss, the optimizer or the checkpoint store,
\* for batch i (0 when none), with the model's mode and parameters at the call
Ev(op, i) == [op |-> op, batch |-> i, mode |-> mode, params |-> params]

\* lines 28-33: the calls of one training batch, in statement order
\* (TrainBatchCallsTwoSteps: a second optimizer.step())
TrainBatchCallsTwoSteps(i) ==
    <<Ev("forward", i), Ev("loss", i), Ev("zero_grad", i), Ev("backward", i),
      Ev("step", i), Ev("step", i)>>
TrainBatchCalls(i) ==
    <<Ev("forward", i), Ev("loss", i), Ev("zero_grad", i), Ev("backward", i),
      Ev("step", i)>>

\* the optimizer steps among calls
Steps(calls) == Cardinality({k \in 1..Len(calls) : calls[k].op = "step"})

\* utils.metric.evaluate: the mode it places the model in and leaves it in
evaluate_mode == "eval"

\* utils.metric.evaluate(model, test_iter, device): one forward pass, in
\* evaluation mode, on every batch of a fresh pass over the test loader
EvaluateCalls ==
    [j \in 1..Len(test_iter) |->
        [op |-> "eval_forward", batch |-> LoaderIter(test_iter) + j,
         mode |-> evaluate_mode, params |-> params]]

\* '{:.4}'.format(x), lines 49-50: x rounded to four significant digits.  The
\* printed number is x itself when x has that few digits and a near-by number
\* otherwise, the map is monotone, and distinct close values print alike.  At
\* the scale of the model, whose values are whole levels and small fractions
\* p / q, the printable numbers are the even levels: x prints as the even
\* level at or next below it.
Format(f) == <<2 * (f[1] \div (2 * f[2])), 1>>

\* line 44: model.state_dict()
StateDict == [model |-> model, params |-> params]

\* line 57
Log == [loss |-> log_training_loss,
        acc_train |-> log_training_accuracy,
        acc_test |-> log_testing_accuracy]

\* lines 19-21: the head of the epoch loop after `done` completed epochs of a
\* run of e epochs over loader it; an exhausted (or empty) inner loop falls
\* through to line 40.  The loader is a sized, restartable iterable: `for X, y
\* in train_iter` starts again at its first batch in every epoch.
LoopHead(done, e, it) ==
    IF HasNextEpoch(done, e)
    THEN /\ epoch' = done + 1
         /\ loss_sum' = 0 /\ acc_sum' = 0 /\ samples_sum' = 0
         /\ consumed' = ForTrainIter(consumed, it)
         /\ ops' = << >>
         /\ pc' = IF ForTrainIter(consumed, it) >= Len(it) THEN "evaluate" ELSE "train"
    ELSE /\ epoch' = done
         /\ pc' = "return"
         /\ UNCHANGED <<loss_sum, acc_sum, samples_sum, consumed, ops>>

\* lines 11-19: entry of train_loop, called by c with model m (as constructed),
\* training loader it, test loader tit, e epochs and checkpoint path f
Enter(m, it, tit, e, f, c) ==
    /\ model' = m /\ train_iter' = it /\ test_iter' = tit /\ epochs' = e
    /\ add_weights_file' = f /\ caller' = c
    /\ params' = 0
    /\ mode' = "train"
    /\ log_training_loss' = << >>
    /\ log_training_accuracy' = << >>
    /\ log_testing_accuracy' = << >>
    /\ best_test_acc' = InitBest
    /\ hist' = << >>
    /\ LoopHead(0, e, it)

\* a direct call train_loop(model, train_iter, test_iter, ..., epochs, ..., add_weights_file)
TrainLoopCall ==
    /\ pc = "train_loop"
    /\ Enter("m", train_iter, test_iter, epochs, add_weights_file, "direct")
    /\ UNCHANGED <<exc, mainVars, test_acc, save_hint, ret, files, writes, stdout>>

\* lines 21-38: one batch of the training pass
TrainBatch ==
    /\ pc = "train"
    /\ LET b == train_iter[consumed + 1] IN
       /\ ops' = ops \o TrainBatchCalls(consumed + 1)
       /\ params' = params + Steps(TrainBatchCalls(consumed + 1))
       /\ loss_sum' = loss_sum + Times(l_item(b), samples_num(b))
       /\ acc_sum' = acc_sum + Times(calculate_accuracy(b), samples_num(b))
       /\ samples_sum' = samples_sum + samples_num(b)
    /\ consumed' = consumed + 1
    /\ pc' = IF consumed + 1 = Len(train_iter) THEN "evaluate" ELSE "train"
    /\ UNCHANGED <<exc, mainVars, argVars, mode, epoch, test_acc, best_test_acc, save_hint,
                   logVars, ret, files, writes, stdout, hist>>

\* lines 23-30: the device transfer, the forward pass or the loss raises
TrainBatchRaise ==
    /\ pc = "train"
    /\ pc' = "raised"
    /\ exc' = "RuntimeError"
    /\ UNCHANGED <<mainVars, argVars, params, mode, epochVars, test_acc, best_test_acc,
                   save_hint, logVars, ret, files, writes, stdout, hist>>

\* line 40: test_acc = evaluate(model, test_iter, device)
Evaluate ==
    /\ pc = "evaluate"
    /\ mode' = evaluate_mode
    /\ ops' = ops \o EvaluateCalls
    /\ \E a \in AccLevels : test_acc' = a
    /\ pc' = "checkpoint"
    /\ UNCHANGED <<exc, mainVars, argVars, params, epoch, consumed, loss_sum, acc_sum,
                   samples_sum, best_test_acc, save_hint, logVars, ret, files, writes,
                   stdout, hist>>

\* lines 42-47
Checkpoint ==
    /\ pc = "checkpoint"
    /\ IF ShouldSave(test_acc, best_test_acc)
       THEN /\ save_hint' = TRUE
            /\ files' = [files EXCEPT ![add_weights_file] = <<StateDict>>]
            /\ writes' = [writes EXCEPT ![add_weights_file] = @ + 1]
            /\ ops' = Append(ops, Ev("save", 0))
       ELSE /\ save_hint' = FALSE
            /\ UNCHANGED <<files, writes, ops>>
    /\ best_test_acc' = NewBest(test_acc, best_test_acc)
    /\ hist' = Append(hist, [test_acc |-> test_acc, best_before |-> best_test_acc,
                             params |-> params,
                             saved |-> ShouldSave(test_acc, best_test_acc)])
    /\ pc' = "report"
    /\ UNCHANGED <<exc, mainVars, argVars, params, mode, epoch, consumed, loss_sum,
                   acc_sum, samples_sum, test_acc, logVars, ret, stdout>>

\* lines 49-51: the line given to tqdm.write (ProgressLineUnsaved: the save
\* hint left out)
ProgressLineUnsaved ==
    [epoch |-> epoch,
     loss |-> Format(Div(loss_sum, samples_sum)),
     train_acc |-> Format(Div(acc_sum, samples_sum)),
     test_acc |-> Format(<<test_acc, 1>>),
     best_record |-> Format(<<best_test_acc, 1>>),
     save_hint |-> FALSE]
ProgressLine ==
    [epoch |-> epoch,
     loss |-> Format(Div(loss_sum, samples_sum)),
     train_acc |-> Format(Div(acc_sum, samples_sum)),
     test_acc |-> Format(<<test_acc, 1>>),
     best_record |-> Format(<<best_test_acc, 1>>),
     save_hint |-> save_hint]

\* lines 49-55, then back to line 19
Report ==
    /\ pc = "report"
    /\ samples_sum > 0
    /\ stdout' = Append(stdout, ProgressLine)
    /\ log_training_loss' = Append(log_training_loss, Div(loss_sum, samples_sum))
    /\ log_training_accuracy' = Append(log_training_accuracy, Div(acc_sum, samples_sum))
    /\ log_testing_accuracy' = Append(log_testing_accuracy, test_acc)
    /\ LoopHead(epoch, epochs, train_iter)
    /\ UNCHANGED <<exc, mainVars, argVars, params, mode, test_acc, best_test_acc,
                   save_hint, ret, files, writes, hist>>

\* line 50 with samples_sum = 0: loss_sum / samples_sum raises ZeroDivisionError
ReportRaise ==
    /\ pc = "report"
    /\ samples_sum = 0
    /\ pc' = "raised"
    /\ exc' = "ZeroDivisionError"
    /\ UNCHANGED <<mainVars, argVars, params, mode, epochVars, test_acc, best_test_acc,
                   save_hint, logVars, ret, files, writes, stdout, hist>>

\* lines 57-58 and the caller's assignment of the result (lines 135, 143)
TrainReturn ==
    /\ pc = "return"
    /\ CASE caller = "g1" ->
              /\ log_g1' = <<Log>>
              /\ pc' = "g2"
              /\ UNCHANGED <<log_g2, ret>>
         [] caller = "g2" ->
              /\ log_g2' = <<Log>>
              /\ pc' = "end"
              /\ UNCHANGED <<log_g1, ret>>
         [] OTHER ->
              /\ ret' = <<Log>>
              /\ pc' = "done"
              /\ UNCHANGED <<log_g1, log_g2>>
    /\ UNCHANGED <<exc, branch_selection, train_iter_A, train_iter_B, test_iter_A,
                   test_iter_B, constructed,
                   main_ret, unknown_printed, argVars, params, mode, epochVars, test_acc,
                   best_test_acc, save_hint, logVars, files, writes, stdout, hist>>

\* ---- main, lines 61-143 ----

\* line 166: the values argparse accepts for --branch
choices == {"g1", "g2", "all"}

\* lines 110-122: the branch selections main loads data for
\* (IsKnownBranchAny: the final else of line 122 missing)
IsKnownBranchAny(b) == TRUE
IsKnownBranch(b) == b \in {"g1", "g2", "all"}

\* line 129
SelectsG1(b) == b = "g1" \/ b = "all"

\* line 137 (SelectsG2Only: the test for 'all' missing)
SelectsG2Only(b) == b = "g2"
SelectsG2(b) == b = "g2" \/ b = "all"

\* lines 134 and 142: join(add_weights, 'g1.pth'), join(add_weights, 'g2.pth')
\* (G2FileCopied: line 142 copied from line 134 unchanged)
G1File == "g1.pth"
G2FileCopied == "g1.pth"
G2File == "g2.pth"

\* truth value of a loader variable in `assert train_iter_A, ...` (lines 130,
\* 138): None is false, a sized loader is true iff it has at least one batch
Truthy(v) == Len(v) = 1 /\ Len(v[1]) > 0

ReturnedNone == [kind |-> "None", items |-> << >>]

\* lines 165-171: parse_args accepts the branch and main is called
ParseArgs ==
    /\ pc = "parse_args"
    /\ branch_selection \in choices
    /\ pc' = "main"
    /\ UNCHANGED <<exc, mainVars, argVars, params, mode, epochVars, test_acc, best_test_acc,
                   save_hint, logVars, ret, files, writes, stdout, hist>>

\* lines 165-170: parse_args rejects a branch outside choices (exit status 2)
ParseArgsReject ==
    /\ pc = "parse_args"
    /\ branch_selection \notin choices
    /\ pc' = "raised"
    /\ exc' = "SystemExit"
    /\ UNCHANGED <<mainVars, argVars, params, mode, epochVars, test_acc, best_test_acc,
                   save_hint, logVars, ret, files, writes, stdout, hist>>

\* lines 106-121: loading the data of the selected branches
MainLoad ==
    /\ pc = "main"
    /\ IsKnownBranch(branch_selection)
    /\ IF branch_selection \in {"g1", "all"}
       THEN \E a \in Loaders : train_iter_A' = <<a>>
       ELSE train_iter_A' = << >>
    /\ IF branch_selection \in {"g2", "all"}
       THEN \E b \in Loaders : train_iter_B' = <<b>>
       ELSE train_iter_B' = << >>
    /\ IF branch_selection \in {"g1", "all"}
       THEN \E t \in TestLoaders : test_iter_A' = <<t>>
       ELSE test_iter_A' = << >>
    /\ IF branch_selection \in {"g2", "all"}
       THEN \E t \in TestLoaders : test_iter_B' = <<t>>
       ELSE test_iter_B' = << >>
    /\ pc' = "g1"
    /\ UNCHANGED <<exc, branch_selection, constructed, log_g1, log_g2, main_ret,
                   unknown_printed, argVars, params, mode, epochVars, test_acc, best_test_acc,
                   save_hint, logVars, ret, files, writes, stdout, hist>>

\* lines 122-124: an unknown branch selection is printed and main returns
MainUnknown ==
    /\ pc = "main"
    /\ ~IsKnownBranch(branch_selection)
    /\ unknown_printed' = TRUE
    /\ main_ret' = ReturnedNone
    /\ pc' = "done"
    /\ UNCHANGED <<exc, branch_selection, train_iter_A, train_iter_B, test_iter_A,
                   test_iter_B, constructed,
                   log_g1, log_g2, argVars, params, mode, epochVars, test_acc, best_test_acc,
                   save_hint, logVars, ret, files, writes, stdout, hist>>

\* lines 129-135: branch g1 is selected and its run starts
MainG1 ==
    /\ pc = "g1"
    /\ SelectsG1(branch_selection)
    /\ Truthy(train_iter_A)
    /\ constructed' = constructed \cup {"g1"}
    /\ Enter("g1", train_iter_A[1], test_iter_A[1], EPOCHS_g1, G1File, "g1")
    /\ UNCHANGED <<exc, branch_selection, train_iter_A, train_iter_B, test_iter_A,
                   test_iter_B, log_g1, log_g2,
                   main_ret, unknown_printed, test_acc, save_hint, ret, files, writes,
                   stdout>>

\* line 130: the assertion fails
MainG1Assert ==
    /\ pc = "g1"
    /\ SelectsG1(branch_selection)
    /\ ~Truthy(train_iter_A)
    /\ pc' = "raised"
    /\ exc' = "AssertionError"
    /\ UNCHANGED <<mainVars, argVars, params, mode, epochVars, test_acc, best_test_acc,
                   save_hint, logVars, ret, files, writes, stdout, hist>>

\* line 129: branch g1 is not selected
MainG1Skip ==
    /\ pc = "g1"
    /\ ~SelectsG1(branch_selection)
    /\ pc' = "g2"
    /\ UNCHANGED <<exc, mainVars, argVars, params, mode, epochVars, test_acc, best_test_acc,
                   save_hint, logVars, ret, files, writes, stdout, hist>>

\* lines 137-143: branch g2 is selected and its run starts
MainG2 ==
    /\ pc = "g2"
    /\ SelectsG2(branch_selection)
    /\ Truthy(train_iter_B)
    /\ constructed' = constructed \cup {"g2"}
    /\ Enter("g2", train_iter_B[1], test_iter_B[1], EPOCHS_g2, G2File, "g2")
    /\ UNCHANGED <<exc, branch_selection, train_iter_A, train_iter_B, test_iter_A,
                   test_iter_B, log_g1, log_g2,
                   main_ret, unknown_printed, test_acc, save_hint, ret, files, writes,
                   stdout>>

\* line 138: the assertion fails
MainG2Assert ==
    /\ pc = "g2"
    /\ SelectsG2(branch_selection)
    /\ ~Truthy(train_iter_B)
    /\ pc' = "raised"
    /\ exc' = "AssertionError"
    /\ UNCHANGED <<mainVars, argVars, params, mode, epochVars, test_acc, best_test_acc,
                   save_hint, logVars, ret, files, writes, stdout, hist>>

\* line 137: branch g2 is not selected
MainG2Skip ==
    /\ pc = "g2"
    /\ ~SelectsG2(branch_selection)
    /\ pc' = "end"
    /\ UNCHANGED <<exc, mainVars, argVars, params, mode, epochVars, test_acc, best_test_acc,
                   save_hint, logVars, ret, files, writes, stdout, hist>>

\* after line 143: main ends without a return statement
MainEnd ==
    /\ pc = "end"
    /\ main_ret' = ReturnedNone
    /\ pc' = "done"
    /\ UNCHANGED <<exc, branch_selection, train_iter_A, train_iter_B, test_iter_A,
                   test_iter_B, constructed,
                   log_g1, log_g2, unknown_printed, argVars, params, mode, epochVars, test_acc,
                   best_test_acc, save_hint, logVars, ret, files, writes, stdout, hist>>

\* ---- the program ----

\* The program starts at the command line (parse_args), at a call of main with
\* any branch selection, or at a call of train_loop with any epoch count,
\* loader and checkpoint path.  No checkpoint file exists yet.
Fresh ==
    /\ exc = "none"
    /\ train_iter_A = << >> /\ train_iter_B = << >>
    /\ test_iter_A = << >> /\ test_iter_B = << >>
    /\ mode = "train"
    /\ ops = << >>
    /\ constructed = {}
    /\ log_g1 = << >> /\ log_g2 = << >>
    /\ main_ret = [kind |-> "pending", items |-> << >>]
    /\ unknown_printed = FALSE
    /\ params = 0
    /\ epoch = 0 /\ consumed = 0
    /\ loss_sum = 0 /\ acc_sum = 0 /\ samples_sum = 0
    /\ test_acc = 0 /\ best_test_acc = 0
    /\ save_hint = FALSE
    /\ log_training_loss = << >>
    /\ log_training_accuracy = << >>
    /\ log_testing_accuracy = << >>
    /\ ret = << >>
    /\ files = [p \in Paths |-> << >>]
    /\ writes = [p \in Paths |-> 0]
    /\ stdout = << >>
    /\ hist = << >>

Init ==
    /\ Fresh
    /\ \/ /\ pc \in {"parse_args", "main"}
          /\ branch_selection \in BranchArgs
          /\ caller = "none" /\ model = "none"
          /\ train_iter = << >> /\ test_iter = << >>
          /\ epochs = 0 /\ add_weights_file = "g1.pth"
       \/ /\ pc = "train_loop"
          /\ branch_selection = "none"
          /\ caller = "direct" /\ model = "m"
          /\ train_iter \in Loaders
          /\ test_iter \in TestLoaders
          /\ epochs \in 0..MaxEpochs
          /\ add_weights_file \in Paths

Next ==
    \/ ParseArgs
    \/ ParseArgsReject
    \/ MainLoad
    \/ MainUnknown
    \/ MainG1
    \/ MainG1Assert
    \/ MainG1Skip
    \/ MainG2
    \/ MainG2Assert
    \/ MainG2Skip
    \/ MainEnd
    \/ TrainLoopCall
    \/ TrainBatch
    \/ TrainBatchRaise
    \/ Evaluate
    \/ Checkpoint
    \/ Report
    \/ ReportRaise
    \/ TrainReturn

Spec == Init /\ [][Next]_vars

\* ---- the accumulation of lines 20-38 over every batching of a data set ----

Samples == {Sample(l, c) : l \in LossValues, c \in BOOLEAN}

\* the data sets: the sample sequences of up to MaxSamples samples
DataSets == UNION {[1..n -> Samples] : n \in 0..MaxSamples}

\* the loader that yields data set s in batches ending after the places in K
\* and after the last sample
RECURSIVE Batched(_, _)
Batched(s, K) ==
    IF s = << >> THEN << >>
    ELSE LET first == IF K = {} THEN Len(s)
                      ELSE CHOOSE k \in K : \A j \in K : k <= j
         IN  <<SubSeq(s, 1, first)>>
             \o Batched(SubSeq(s, first + 1, Len(s)), {k - first : k \in K \ {first}})

\* every batching of every data set
Batchings == UNION {{Batched(s, K) : K \in SUBSET (1..(Len(s) - 1))} : s \in DataSets}

\* the samples a loader yields in one pass, batch boundaries forgotten
RECURSIVE Flat(_)
Flat(it) == IF it = << >> THEN << >> ELSE it[1] \o Flat(Tail(it))

\* a direct call of train_loop on any batching of any data set
InitMetric ==
    /\ Fresh
    /\ pc = "train_loop"
    /\ branch_selection = "none"
    /\ caller = "direct" /\ model = "m"
    /\ train_iter \in Batchings
    /\ test_iter \in TestLoaders
    /\ epochs \in 1..2
    /\ add_weights_file = "g1.pth"

NextMetric ==
    \/ TrainLoopCall
    \/ TrainBatch
    \/ TrainBatchRaise
    \/ Evaluate
    \/ Checkpoint
    \/ Report
    \/ ReportRaise
    \/ TrainReturn

SpecMetric == InitMetric /\ [][NextMetric]_vars

\* ---- properties ----

\* the positions inside a run of train_loop
InRun == pc \in {"train", "evaluate", "checkpoint", "report", "return"}

\* the log the caller of the running (or last) train_loop holds
Delivered ==
    CASE caller = "g1" -> log_g1
      [] caller = "g2" -> log_g2
      [] OTHER -> ret

\* the test accuracies of the epochs this run has evaluated so far
Accs(k) == {hist[i].test_acc : i \in 1..k}

Written(f) ==
    /\ writes'[f] = writes[f] + 1
    /\ files'[f] = <<StateDict>>
    /\ \A g \in Paths \ {f} : writes'[g] = writes[g] /\ files'[g] = files[g]

\* C1: at the checkpoint decision that ends an epoch the model is written to
\* the checkpoint path iff the epoch's test accuracy is >= the best score held
\* before the epoch (a tie writes, a strictly lower score does not), and no
\* other step writes a checkpoint.
C1_SaveIffNotWorse ==
    [][ /\ pc = "checkpoint" /\ test_acc >= best_test_acc => Written(add_weights_file)
        /\ pc = "checkpoint" /\ test_acc < best_test_acc =>
               writes' = writes /\ files' = files
        /\ pc # "checkpoint" => writes' = writes /\ files' = files ]_vars

\* a run in which a tie with a positive best score was saved and a strictly
\* lower score was not
C1_Witness ==
    /\ pc = "report"
    /\ \E i \in 1..Len(hist) :
          hist[i].saved /\ hist[i].best_before > 0
          /\ hist[i].test_acc = hist[i].best_before
    /\ \E j \in 1..Len(hist) : ~hist[j].saved /\ hist[j].test_acc < hist[j].best_before

\* C2 (as claimed): when train_loop fails on an empty training stream (zero
\* samples accumulated), no checkpoint has been written in that run.
C2_EmptyStreamNoWrite ==
    (pc = "raised" /\ exc = "ZeroDivisionError" /\ samples_sum = 0) =>
        /\ writes[add_weights_file] = 0
        /\ files[add_weights_file] = << >>

\* C3: within a run the three lists of the log change only by the append of
\* one record at the end of an epoch, record k being appended in epoch k; and
\* a run that completes returns a log of exactly `epochs` records, record k
\* holding the test accuracy evaluated in epoch k.
C3_LogGrowsToEpochs ==
    [][ /\ (InRun /\ pc # "report") => UNCHANGED logVars
        /\ (pc = "report" /\ pc' # "raised") =>
              /\ Len(log_testing_accuracy) = epoch - 1
              /\ log_testing_accuracy' = Append(log_testing_accuracy, test_acc)
              /\ SubSeq(log_training_loss', 1, epoch - 1) = log_training_loss
              /\ SubSeq(log_training_accuracy', 1, epoch - 1) = log_training_accuracy
              /\ Len(log_training_loss') = epoch
              /\ Len(log_training_accuracy') = epoch
        /\ (pc = "report" /\ pc' = "raised") => UNCHANGED logVars
        /\ pc = "return" =>
              /\ Len(Delivered') = 1
              /\ Len(Delivered'[1].loss) = epochs
              /\ Len(Delivered'[1].acc_train) = epochs
              /\ Len(Delivered'[1].acc_test) = epochs
              /\ \A k \in 1..epochs : Delivered'[1].acc_test[k] = hist[k].test_acc ]_vars

\* a direct call with the largest epoch count has returned its log
C3_Witness ==
    /\ pc = "done" /\ caller = "direct" /\ epochs = MaxEpochs
    /\ Len(ret) = 1 /\ Len(ret[1].acc_test) = MaxEpochs

\* C4 (as claimed): when an error ends epoch k >= 2 of a run, the caller holds
\* a log with exactly the records of the k-1 epochs completed before it.
C4_LogSurvivesError ==
    (pc = "raised" /\ exc \in {"RuntimeError", "ZeroDivisionError"} /\ epoch >= 2) =>
        /\ Delivered = <<Log>>
        /\ Len(Delivered[1].acc_test) = epoch - 1

\* C5: between the epochs of a run the best score is the maximum of 0 and the
\* test accuracies logged so far (after the decision of an epoch, of those and
\* the epoch's own test accuracy); within a run the best score never decreases
\* and changes only at the decision of an epoch whose test accuracy is >= the
\* best score before it, to that accuracy.
C5_BestIsMax ==
    /\ [](pc \in {"train", "evaluate", "checkpoint", "return"} =>
             best_test_acc = SetMax({0} \cup Range(log_testing_accuracy)))
    /\ [](pc = "report" =>
             best_test_acc = SetMax({0, test_acc} \cup Range(log_testing_accuracy)))
    /\ [][ InRun =>
             /\ best_test_acc' >= best_test_acc
             /\ best_test_acc' # best_test_acc =>
                   /\ pc = "checkpoint"
                   /\ test_acc >= best_test_acc
                   /\ best_test_acc' = test_acc ]_vars

\* a run whose best score was raised by one epoch and kept through a later,
\* lower one
C5_Witness ==
    /\ pc = "return"
    /\ Len(log_testing_accuracy) >= 2
    /\ best_test_acc > 0
    /\ log_testing_accuracy[Len(log_testing_accuracy)] < best_test_acc

\* C6 (as claimed): with a branch selection other than g1, g2, all the program
\* ends with an error raised, no model constructed, no optimizer step taken
\* and no checkpoint written.
C6_UnknownBranchRaises ==
    (branch_selection = "g3" /\ pc \in {"done", "raised"}) =>
        /\ exc # "none"
        /\ constructed = {} /\ params = 0
        /\ \A f \in Paths : writes[f] = 0 /\ files[f] = << >>

\* C6 (amended): with a branch selection other than g1, g2, all no model is
\* ever constructed, no optimizer step taken and no checkpoint written; a call
\* of main prints the unknown selection and returns None without raising, and
\* only the command line's parse_args ends with an error (SystemExit), before
\* main runs.
C6_UnknownBranchNoTraining ==
    branch_selection = "g3" =>
        /\ pc \in {"parse_args", "main", "done", "raised"}
        /\ constructed = {} /\ params = 0 /\ hist = << >>
        /\ train_iter_A = << >> /\ train_iter_B = << >>
        /\ \A f \in Paths : writes[f] = 0 /\ files[f] = << >>
        /\ pc = "raised" => exc = "SystemExit" /\ ~unknown_printed
        /\ pc = "done" => exc = "none" /\ unknown_printed /\ main_ret = ReturnedNone
        /\ pc \in {"parse_args", "main"} => exc = "none" /\ ~unknown_printed

\* main called with the unknown selection has printed it and returned
C6_Witness ==
    /\ branch_selection = "g3" /\ pc = "done"
    /\ unknown_printed /\ exc = "none"

\* C7: a call of train_loop with epochs = 0 never raises and never writes a
\* checkpoint, runs no epoch, and returns a log whose three lists are empty.
C7_ZeroEpochs ==
    (caller = "direct" /\ epochs = 0) =>
        /\ pc \in {"train_loop", "return", "done"}
        /\ exc = "none"
        /\ \A f \in Paths : writes[f] = 0 /\ files[f] = << >>
        /\ params = 0 /\ hist = << >> /\ stdout = << >>
        /\ pc = "done" =>
              ret = <<[loss |-> << >>, acc_train |-> << >>, acc_test |-> << >>]>>

\* a call with epochs = 0 has returned
C7_Witness ==
    /\ caller = "direct" /\ epochs = 0 /\ pc = "done" /\ Len(ret) = 1

\* C8: with branch_selection = all, throughout g2's run the best score and
\* every checkpoint decision of g2 are determined by g2's own test accuracies
\* alone, starting from the sentinel 0: the best score is the maximum of 0 and
\* g2's accuracies so far, epoch k saved iff its accuracy is >= the maximum of
\* 0 and g2's earlier accuracies, and g2's first epoch always saves, whatever
\* accuracies g1's run logged.
C8_G2BestOwnSentinel ==
    (branch_selection = "all" /\ caller = "g2" /\ pc # "raised") =>
        /\ Len(log_g1) = 1
        /\ best_test_acc = SetMax({0} \cup Accs(Len(hist)))
        /\ \A k \in 1..Len(hist) :
              /\ hist[k].best_before = SetMax({0} \cup Accs(k - 1))
              /\ hist[k].saved <=> hist[k].test_acc >= SetMax({0} \cup Accs(k - 1))
        /\ Len(hist) >= 1 =>
              /\ hist[1].saved
              /\ writes["g2.pth"] >= 1
              /\ files["g2.pth"] # << >>
              /\ files["g2.pth"][1].model = "g2"
        /\ writes["g2.pth"] = Cardinality({k \in 1..Len(hist) : hist[k].saved})

\* g1 reached the top accuracy in every epoch and g2's first epoch, with the
\* lowest accuracy, saved g2's checkpoint
C8_Witness ==
    /\ branch_selection = "all" /\ caller = "g2" /\ pc = "report"
    /\ Len(log_g1) = 1
    /\ \A k \in 1..Len(log_g1[1].acc_test) : log_g1[1].acc_test[k] = MaxAcc
    /\ Len(log_g1[1].acc_test) = EPOCHS_g1
    /\ Len(hist) = 1 /\ hist[1].test_acc = 0 /\ hist[1].saved
    /\ writes["g2.pth"] = 1

\* the latest epoch of the run so far with the highest test accuracy
LatestBest ==
    SetMax({k \in 1..Len(hist) : hist[k].test_acc = SetMax(Accs(Len(hist)))})

\* C9: when a run has completed all of its epochs >= 1 epochs, its checkpoint
\* has been written at least once, the best score is the maximum test accuracy
\* of the epochs, and the checkpoint holds the parameters the model had in the
\* latest epoch with that maximum; test accuracies [2, 1, 3] (0.7, 0.65, 0.8)
\* give save, no save, save and a final best score of 3.
C9_FinalCheckpoint ==
    (pc = "return" /\ epochs >= 1) =>
        /\ Len(hist) = epochs
        /\ Len(log_testing_accuracy) = epochs
        /\ writes[add_weights_file] >= 1
        /\ best_test_acc = SetMax(Range(log_testing_accuracy))
        /\ files[add_weights_file] =
              <<[model |-> model, params |-> hist[LatestBest].params]>>
        /\ \A k \in 1..(epochs - 1) : hist[k].params < hist[k + 1].params
        /\ log_testing_accuracy = <<2, 1, 3>> =>
              /\ [k \in 1..3 |-> hist[k].saved] = <<TRUE, FALSE, TRUE>>
              /\ best_test_acc = 3
              /\ writes[add_weights_file] = 2

\* the run of the example has completed
C9_Witness ==
    /\ pc = "return" /\ epochs = 3
    /\ log_testing_accuracy = <<2, 1, 3>>
    /\ writes[add_weights_file] = 2

\* the mapping main would return for selection b: the selected branches with
\* their logs, g1 first
Mapping(b) ==
    (IF b \in {"g1", "all"} THEN <<[name |-> "g1", log |-> log_g1]>> ELSE << >>)
    \o (IF b \in {"g2", "all"} THEN <<[name |-> "g2", log |-> log_g2]>> ELSE << >>)

\* C10 (as claimed): main, completing for a selection of g1, g2 or all,
\* returns the mapping of exactly the selected branches to their logs.
C10_ReturnsMapping ==
    (pc = "done" /\ branch_selection \in {"g1", "g2", "all"}) =>
        /\ main_ret.kind = "dict"
        /\ main_ret.items = Mapping(branch_selection)

\* C10 (amended): main returns None; when it completes for a selection of g1,
\* g2 or all it has bound a log of the full epoch budget to log_g1 exactly
\* when the selection is g1 or all and to log_g2 exactly when it is g2 or all,
\* and log_g2 is never bound before log_g1 when both are selected.
C10_LogsBoundNoneReturned ==
    /\ (pc = "done" /\ branch_selection \in {"g1", "g2", "all"}) =>
          /\ main_ret = ReturnedNone
          /\ Len(log_g1) = (IF branch_selection \in {"g1", "all"} THEN 1 ELSE 0)
          /\ Len(log_g2) = (IF branch_selection \in {"g2", "all"} THEN 1 ELSE 0)
          /\ Len(log_g1) = 1 => Len(log_g1[1].acc_test) = EPOCHS_g1
          /\ Len(log_g2) = 1 => Len(log_g2[1].acc_test) = EPOCHS_g2
          /\ constructed = {m \in {"g1", "g2"} : branch_selection \in {m, "all"}}
    /\ (Len(log_g2) = 1 /\ branch_selection = "all") => Len(log_g1) = 1
    /\ (pc # "done" /\ caller # "direct") => main_ret.kind = "pending"

\* main has completed both branches
C10_Witness ==
    /\ pc = "done" /\ branch_selection = "all"
    /\ Len(log_g1) = 1 /\ Len(log_g2) = 1
    /\ main_ret = ReturnedNone

\* ---- C11 ----

\* the training pass of the current epoch is complete
PassDone == pc \in {"evaluate", "checkpoint", "report"}

\* C11: the epoch means do not depend on the batch partitioning.  After the
\* training pass of any epoch over any batching of a data set, loss_sum is the
\* sum of the per-sample losses, acc_sum the number of correctly classified
\* samples and samples_sum the number of samples of the data set, and the
\* means logged for the epoch are their quotients: all three are functions of
\* the samples alone, so two batchings of one data set (a batch of N, or the
\* same samples as batches of a and b = N - a) give the same means.
C11_MeansOfSamples ==
    /\ PassDone =>
          /\ loss_sum = SumLoss(Flat(train_iter))
          /\ acc_sum = CountCorrect(Flat(train_iter))
          /\ samples_sum = Len(Flat(train_iter))
    /\ \A k \in 1..Len(log_training_loss) :
          /\ log_training_loss[k]
               = Div(SumLoss(Flat(train_iter)), Len(Flat(train_iter)))
          /\ log_training_accuracy[k]
               = Div(CountCorrect(Flat(train_iter)), Len(Flat(train_iter)))

\* two epochs were logged over a loader of two batches of unequal sizes and
\* unequal batch means, where the mean of the batch means is not the mean of
\* the samples
C11_Witness ==
    /\ pc = "return" /\ exc = "none"
    /\ Len(log_training_loss) = 2
    /\ Len(train_iter) = 2
    /\ Len(train_iter[1]) # Len(train_iter[2])
    /\ Div(SumLoss(train_iter[1]), Len(train_iter[1]))
         # Div(SumLoss(train_iter[2]), Len(train_iter[2]))
    /\ Div(CountCorrect(train_iter[1]), Len(train_iter[1]))
         # Div(CountCorrect(train_iter[2]), Len(train_iter[2]))

\* ---- C12 ----

\* the batches on which call o was made since the current epoch began, in order
BatchesOf(o) ==
    LET s == SelectSeq(ops, LAMBDA e : e.op = o)
    IN  [k \in 1..Len(s) |-> s[k].batch]

OneToN(n) == [k \in 1..n |-> k]

\* C12: in every epoch of a run, the first and the later ones alike, the
\* training pass starts a new pass over the training loader and the test pass
\* a new pass over the test loader: while the training pass runs, the batches
\* forwarded in this epoch are the first `consumed` batches of the loader, each
\* once and in order; when it is complete they are all batches of the loader,
\* each once; after the evaluation the test batches evaluated in this epoch
\* are all batches of the test loader, each once.
C12_FreshStreams ==
    /\ pc = "train" =>
          /\ consumed < Len(train_iter)
          /\ BatchesOf("forward") = OneToN(consumed)
    /\ PassDone => BatchesOf("forward") = OneToN(Len(train_iter))
    /\ pc \in {"checkpoint", "report"} =>
          BatchesOf("eval_forward") = OneToN(Len(test_iter))

\* a later epoch of a run passed over both batches of its training loader and
\* both batches of its test loader
C12_Witness ==
    /\ pc = "report" /\ epoch >= 2
    /\ Len(train_iter) = 2 /\ Len(test_iter) = 2
    /\ BatchesOf("forward") = <<1, 2>>
    /\ BatchesOf("eval_forward") = <<1, 2>>

\* ---- C13 ----

\* C13: the model is in training mode at the forward pass of every training
\* batch and in evaluation mode at the forward pass of every test batch, and
\* it is in training mode whenever a training pass is under way, that of
\* epoch k+1 after the evaluation of epoch k included.
C13_ModeMatchesPass ==
    /\ \A k \in 1..Len(ops) :
          /\ ops[k].op = "forward" => ops[k].mode = "train"
          /\ ops[k].op = "eval_forward" => ops[k].mode = "eval"
    /\ pc = "train" => mode = "train"

\* ---- C14 ----

TrainOps == {"forward", "loss", "zero_grad", "backward", "step"}

\* C14: the calls of an epoch come in the order of lines 21-45.  Every
\* training batch is forward, loss, zero_grad, backward and one step, the step
\* being the only one of the batch and moving the parameters by one; no call
\* of the training pass follows a call of the evaluation; the evaluation
\* starts only when every training batch was processed; the checkpoint write
\* is the last call of the epoch, comes after the evaluation, and stores the
\* parameters every test batch was evaluated on, which are those the last
\* optimizer step produced.
C14_EpochOrder ==
    /\ \A k \in 1..Len(ops) :
          /\ ops[k].op = "forward" =>
                /\ k + 4 <= Len(ops)
                /\ <<ops[k + 1].op, ops[k + 2].op, ops[k + 3].op, ops[k + 4].op>>
                     = <<"loss", "zero_grad", "backward", "step">>
                /\ \A j \in (k + 1)..(k + 4) :
                      ops[j].batch = ops[k].batch /\ ops[j].params = ops[k].params
                /\ k + 5 <= Len(ops) =>
                      /\ ops[k + 5].op # "step"
                      /\ ops[k + 5].params = ops[k].params + 1
          /\ ops[k].op = "step" => k > 4 /\ ops[k - 4].op = "forward"
          /\ ops[k].op \in TrainOps =>
                \A j \in 1..(k - 1) : ops[j].op \in TrainOps
          /\ ops[k].op = "eval_forward" =>
                /\ BatchesOf("forward") = OneToN(Len(train_iter))
                /\ ops[k].params = params
          /\ ops[k].op = "save" =>
                /\ k = Len(ops) /\ k > 1
                /\ ops[k - 1].op = "eval_forward"
                /\ ops[k].params = ops[k - 1].params
                /\ files[add_weights_file]
                     = <<[model |-> model, params |-> ops[k - 1].params]>>
    /\ pc = "report" =>
          /\ hist[Len(hist)].saved <=> ops[Len(ops)].op = "save"
          /\ hist[Len(hist)].params = params
    /\ Steps(ops) = Len(BatchesOf("forward"))

\* the second epoch of a run over two training batches ended with a
\* checkpoint write of the parameters four optimizer steps produced
C14_Witness ==
    /\ pc = "report" /\ epoch = 2
    /\ Len(train_iter) = 2
    /\ Steps(ops) = 2
    /\ ops[Len(ops)].op = "save"
    /\ files[add_weights_file] = <<[model |-> model, params |-> 4]>>

\* ---- C15 ----

\* the progress lines written before the running (or last) train_loop began
LinesBefore == IF caller = "g2" /\ log_g1 # << >> THEN Len(log_g1[1].acc_test) ELSE 0

\* the progress lines of the running (or last) train_loop
RunLines == SubSeq(stdout, LinesBefore + 1, Len(stdout))

\* the best accuracy after the first k epochs of the run
BestAfter(k) == SetMax({0} \cup {log_testing_accuracy[j] : j \in 1..k})

\* one line per completed epoch: epoch - 1 lines while an epoch is under way
\* or was cut short by an exception, epochs lines once the run has returned
LinePerEpoch ==
    /\ Len(RunLines) = Len(log_testing_accuracy)
    /\ (pc \in {"train", "evaluate", "checkpoint", "report"}
         \/ exc \in {"RuntimeError", "ZeroDivisionError"}) => Len(RunLines) = epoch - 1
    /\ (pc \in {"return", "g2", "end", "done"} /\ caller # "none" /\ exc = "none")
          => Len(RunLines) = epochs
    /\ \A k \in 1..Len(RunLines) : RunLines[k].epoch = k

\* C15 as stated: one progress line per completed epoch, numbered 1..E in
\* order; in every line the printed best is at least the printed test
\* accuracy, the line carries the save hint iff the printed best equals the
\* printed test accuracy, and the printed loss, training accuracy and test
\* accuracy are the values appended to the log for that epoch.
C15_LinesEqualLog ==
    /\ LinePerEpoch
    /\ \A k \in 1..Len(RunLines) :
          /\ RunLines[k].best_record[1] >= RunLines[k].test_acc[1]
          /\ RunLines[k].save_hint <=> RunLines[k].best_record = RunLines[k].test_acc
          /\ RunLines[k].loss = log_training_loss[k]
          /\ RunLines[k].train_acc = log_training_accuracy[k]
          /\ RunLines[k].test_acc = <<log_testing_accuracy[k], 1>>

\* C15, amended: one progress line per completed epoch, numbered 1..E in
\* order; in every line the printed best is at least the printed test
\* accuracy; the line carries the save hint iff the best accuracy after the
\* epoch is the epoch's test accuracy as logged, in which case the two print
\* alike; and the printed loss, training accuracy, test accuracy and best are
\* the four-significant-digit renderings of the logged loss, training
\* accuracy and test accuracy and of the best accuracy after the epoch.
C15_LinesRenderLog ==
    /\ LinePerEpoch
    /\ \A k \in 1..Len(RunLines) :
          /\ RunLines[k].best_record[1] >= RunLines[k].test_acc[1]
          /\ RunLines[k].save_hint <=> BestAfter(k) = log_testing_accuracy[k]
          /\ RunLines[k].save_hint => RunLines[k].best_record = RunLines[k].test_acc
          /\ RunLines[k].loss = Format(log_training_loss[k])
          /\ RunLines[k].train_acc = Format(log_training_accuracy[k])
          /\ RunLines[k].test_acc = Format(<<log_testing_accuracy[k], 1>>)
          /\ RunLines[k].best_record = Format(<<BestAfter(k), 1>>)

\* a run of two epochs returned; its first line carries the save hint and a
\* printed test accuracy that is not the logged one, its second carries no
\* save hint although best and test accuracy print alike
C15_Witness ==
    /\ pc = "return" /\ epochs = 2 /\ Len(RunLines) = 2
    /\ RunLines[1].save_hint
    /\ ~RunLines[2].save_hint
    /\ RunLines[2].best_record = RunLines[2].test_acc
    /\ RunLines[1].test_acc # <<log_testing_accuracy[1], 1>>

\* ---- C16 ----

\* the branch whose orchestrator owns checkpoint path f
Owner(f) == IF f = "g1.pth" THEN "g1" ELSE "g2"

\* C16: a step changes a checkpoint file only as the torch.save of the running
\* train_loop on its own path, and replaces the whole content by the state of
\* the model being trained; the run main starts for g1 writes g1.pth only and
\* the run for g2 writes g2.pth only, each the state of its own model; the
\* checkpoint of a branch that was not selected is never written.
C16_OwnPathOnly ==
    [][/\ \A f \in Paths :
            (files'[f] # files[f] \/ writes'[f] # writes[f]) =>
               /\ pc = "checkpoint"
               /\ f = add_weights_file
               /\ writes'[f] = writes[f] + 1
               /\ files'[f] = <<[model |-> model, params |-> params]>>
               /\ (caller \in {"g1", "g2"} => caller = Owner(f) /\ model = Owner(f))
        /\ (branch_selection' = "g1"
              => writes'["g2.pth"] = 0 /\ files'["g2.pth"] = << >>)
        /\ (branch_selection' = "g2"
              => writes'["g1.pth"] = 0 /\ files'["g1.pth"] = << >>)
        /\ (branch_selection' = "g3"
              => \A q \in Paths : writes'[q] = 0 /\ files'[q] = << >>)
      ]_vars

\* main ran both branches: each checkpoint was written more than once and
\* holds the state of its own branch's model
C16_Witness ==
    /\ pc = "end" /\ branch_selection = "all"
    /\ \A f \in Paths :
          /\ writes[f] >= 2
          /\ files[f] # << >>
          /\ files[f][1].model = Owner(f)
====
